---- MODULE Spec2Model ----
(***************************************************************************)
(* Model of ide-ruff (src/lib/main.js): the project scanner ProjectLinter  *)
(* (runScan, execRuff, convertMessage, buildCheckArgs) and the language    *)
(* client RuffLanguageClient (buildRuffSettings, the diagnostics           *)
(* interceptor, server processes and their callbacks, deactivate).         *)
(*                                                                         *)
(* JavaScript values are tagged records: [t |-> "undefined"],              *)
(* [t |-> "null"], [t |-> "boolean", v |-> b], [t |-> "number", v |-> n],  *)
(* [t |-> "string", v |-> s], [t |-> "array", v |-> seq] and               *)
(* [t |-> "object", v |-> f].  A string is the sequence of its pieces, so  *)
(* that template concatenation and startsWith are computed, not assumed.   *)
(***************************************************************************)
EXTENDS Integers, Sequences, FiniteSets, TLC

VARIABLES
    \* ---- ProjectLinter (the scanner) and its environment
    indieDelegate,   \* this.indieDelegate: "null" or "delegate"
    scanning,        \* this.scanning
    projectPaths,    \* what atom.project.getPaths() returns
    showSyntax,      \* atom.config.get("ide-ruff.lint.syntax")
    sink,            \* the message list the registered delegate displays
    lastCall,        \* what the latest runScan call did: "none", "started", "dropped"
    pc,              \* position of the runScan call: "idle" or "await"
    scanPaths,       \* local projectPaths of the running call
    idx,             \* index in scanPaths of the root being awaited
    allMessages,     \* local allMessages of the running (or last) call
    pending,         \* the promise execRuff returned: "none", "process", "rejected"
    procs,           \* number of outstanding ruff check processes
    history,         \* what the execFile callback received, per root of the call
    outcome,         \* how the latest started call ended, or "running"
    writes,          \* setAllMessages calls made by the running (or last) call
    \* ---- convertMessage applied to one finding
    cmItem, cmShowSyntax, cmResult,
    \* ---- the settings translators applied to one Configuration
    config, ruffSettings, checkArgs,
    \* ---- RuffLanguageClient: life cycle and server processes
    lifecycle,       \* "constructed", "active", "deactivating" (awaiting the race), "deactivated"
    deactHow,        \* how the last deactivate got past the race, or "none"
    processes,       \* this.processes: the set of tracked handles
    ruffFound,       \* this.ruffFound
    child,           \* the processes spawned so far, by handle: state, exit status, notifications
    lastToggle,      \* what the latest toggleNoqa call did: "none", "restart", "quiet"
    \* ---- the diagnostics interceptor of preInitialization
    handlers,        \* per registered downstream handler: what it was called with
    params,          \* the latest publishDiagnostics event object
    deliveries       \* number of events delivered by the connection

scanVars == <<indieDelegate, scanning, projectPaths, showSyntax, sink, lastCall,
              pc, scanPaths, idx, allMessages, pending, procs, history, outcome, writes>>
convVars == <<cmItem, cmShowSyntax, cmResult>>
cfgVars == <<config, ruffSettings, checkArgs>>
clientVars == <<lifecycle, deactHow, processes, ruffFound, child, lastToggle>>
diagVars == <<handlers, params, deliveries>>
vars == <<scanVars, convVars, cfgVars, clientVars, diagVars>>

-----------------------------------------------------------------------------
(* Bounds *)
MaxCoord == 2
MaxRoots == 2
MaxPresent == 2
MaxProcs == 2
MaxHandlers == 2
MaxDeliveries == 2

-----------------------------------------------------------------------------
(* JavaScript values *)
Undef == [t |-> "undefined"]
Null == [t |-> "null"]
Bool(b) == [t |-> "boolean", v |-> b]
Num(n) == [t |-> "number", v |-> n]
Str(s) == [t |-> "string", v |-> s]
Arr(s) == [t |-> "array", v |-> s]
Obj(f) == [t |-> "object", v |-> f]

\* ToBoolean: undefined, null, false, 0 and "" are falsy
Truthy(x) ==
    CASE x.t = "undefined" -> FALSE
      [] x.t = "null" -> FALSE
      [] x.t = "boolean" -> x.v
      [] x.t = "number" -> x.v # 0
      [] x.t = "string" -> Len(x.v) > 0
      [] OTHER -> TRUE

\* String.prototype.startsWith
StartsWith(s, p) == Len(p) <= Len(s) /\ SubSeq(s, 1, Len(p)) = p

\* The separator written in the template literals of the source: the
\* diagnostics interceptor writes U+2014 (bytes e2 80 94), convertMessage
\* writes the three characters U+00E2 U+20AC U+201D (bytes c3 a2 e2 82 ac e2 80 9d).
EmDash == " U+2014 "
MojiDash == " U+00E2 U+20AC U+201D "

-----------------------------------------------------------------------------
(* ProjectLinter.convertMessage *)

Loc(r, c) == Obj([row |-> r, column |-> c])

NullResult == [kind |-> "null"]
ThrowResult == [kind |-> "throw"]

\* the separator of the excerpt template
ExcerptSep == MojiDash

\* a slip: every falsy code (absent, null, "") taken for a syntax error
IsSyntaxError_Falsy(item) == ~Truthy(item.code) \/ item.code = Str(<<"E999">>)

\* isSyntaxError = item.code === null || item.code === "E999"
IsSyntaxError(item) == item.code = Null \/ item.code = Str(<<"E999">>)

\* excerpt: item.code ? `${item.code}<sep>${item.message}` : item.message
Excerpt(item) ==
    IF Truthy(item.code)
        THEN item.code.v \o <<ExcerptSep>> \o item.message.v
        ELSE item.message.v

\* a slip: the end column is not shifted to 0-based
convertMessage_EndColumn(filePath, item, syntaxCfg) ==
    IF ~Truthy(item.location) THEN NullResult
    ELSE IF syntaxCfg = Bool(FALSE) /\ IsSyntaxError(item) THEN NullResult
    ELSE IF item.end_location.t # "object" THEN ThrowResult
    ELSE [kind |-> "message",
          severity |-> IF IsSyntaxError(item) THEN "error" ELSE "warning",
          excerpt |-> Excerpt(item),
          file |-> filePath,
          position |-> << <<item.location.v.row - 1, item.location.v.column - 1>>,
                          <<item.end_location.v.row - 1, item.end_location.v.column>> >>]

\* if (!item.location) return null;
\* if (showSyntax === false && isSyntaxError) return null;
\* return {severity, excerpt, location: {file, position}} with every coordinate
\* minus one; reading .row of an undefined end_location is a TypeError
convertMessage(filePath, item, syntaxCfg) ==
    IF ~Truthy(item.location) THEN NullResult
    ELSE IF syntaxCfg = Bool(FALSE) /\ IsSyntaxError(item) THEN NullResult
    ELSE IF item.end_location.t # "object" THEN ThrowResult
    ELSE [kind |-> "message",
          severity |-> IF IsSyntaxError(item) THEN "error" ELSE "warning",
          excerpt |-> Excerpt(item),
          file |-> filePath,
          position |-> << <<item.location.v.row - 1, item.location.v.column - 1>>,
                          <<item.end_location.v.row - 1, item.end_location.v.column - 1>> >>]

\* the inputs convertMessage is applied to
Codes == {Undef, Null, Str(<< >>), Str(<<"E999">>), Str(<<"E501">>)}
Messages == {Str(<<"Line too long">>),
             Str(<<"E501", EmDash, "Line too long">>),
             Str(<<"E501", MojiDash, "Line too long">>)}
Locs == {Undef} \cup {Loc(r, c) : r \in 1..MaxCoord, c \in 1..MaxCoord}
ConvItems == [filename : {Str(<<"a.py">>)}, code : Codes, message : Messages,
              location : Locs, end_location : Locs]
SyntaxCfgs == {Undef, Bool(TRUE), Bool(FALSE)}

ScanIdle ==
    /\ indieDelegate = "null"
    /\ scanning = FALSE
    /\ projectPaths = << >>
    /\ showSyntax = Undef
    /\ sink = << >>
    /\ lastCall = "none"
    /\ pc = "idle"
    /\ scanPaths = << >>
    /\ idx = 0
    /\ allMessages = << >>
    /\ pending = "none"
    /\ procs = 0
    /\ history = << >>
    /\ outcome = "none"
    /\ writes = 0

ConvIdle ==
    /\ cmItem = Undef
    /\ cmShowSyntax = Undef
    /\ cmResult = [kind |-> "idle"]

CfgIdle ==
    /\ config = Undef
    /\ ruffSettings = Undef
    /\ checkArgs = Undef

\* the client as its constructor leaves it: no process, ruffFound not yet assigned
ClientIdle ==
    /\ lifecycle = "constructed"
    /\ deactHow = "none"
    /\ processes = {}
    /\ ruffFound = Undef
    /\ child = << >>
    /\ lastToggle = "none"

\* no connection yet: nothing registered, nothing delivered
DiagIdle ==
    /\ handlers = << >>
    /\ params = Undef
    /\ deliveries = 0

\* one finding and one value of the lint.syntax setting, not yet converted
InitConv ==
    /\ cmItem \in ConvItems
    /\ cmShowSyntax \in SyntaxCfgs
    /\ cmResult = [kind |-> "pending"]
    /\ ScanIdle
    /\ CfgIdle
    /\ ClientIdle
    /\ DiagIdle

ConvertCall ==
    /\ cmResult.kind = "pending"
    /\ cmResult' = convertMessage(cmItem.filename, cmItem, cmShowSyntax)
    /\ UNCHANGED <<cmItem, cmShowSyntax, scanVars, cfgVars, clientVars, diagVars>>

NextConv == ConvertCall

SpecConv == InitConv /\ [][NextConv]_vars

-----------------------------------------------------------------------------
(* Claims about convertMessage, checked under SpecConv *)

Converted == cmResult.kind \in {"null", "throw", "message"}
HasLocation(item) == item.location.t = "object"
HasEndLocation(item) == item.end_location.t = "object"
SyntaxCode(item) == item.code.t = "null" \/ (item.code.t = "string" /\ item.code.v = <<"E999">>)
SyntaxOff == cmShowSyntax.t = "boolean" /\ cmShowSyntax.v = FALSE
MinusOne(res, item) ==
    /\ res.position[1][1] = item.location.v.row - 1
    /\ res.position[1][2] = item.location.v.column - 1
    /\ res.position[2][1] = item.end_location.v.row - 1
    /\ res.position[2][2] = item.end_location.v.column - 1

\* C7 as stated: convertMessage returns null if and only if the finding has no
\* location, and for every other finding, whatever its code and the toggle, it
\* returns a diagnostic whose four coordinates are the input's minus one.
C7_Original ==
    Converted =>
        /\ (cmResult.kind = "null") <=> ~HasLocation(cmItem)
        /\ HasLocation(cmItem) => (cmResult.kind = "message" /\ MinusOne(cmResult, cmItem))

\* C7 amended: convertMessage returns null if and only if the finding has no
\* location or it is a syntax error (code null or "E999") while the toggle is
\* false; every other finding with an end location gives a diagnostic whose
\* four coordinates are the input's minus one, and every other finding without
\* an end location makes convertMessage raise.
C7_NullIffNoLocationOrSuppressed ==
    Converted =>
        /\ (cmResult.kind = "null") <=>
               (~HasLocation(cmItem) \/ (SyntaxOff /\ SyntaxCode(cmItem)))
        /\ (cmResult.kind # "null" /\ HasEndLocation(cmItem)) =>
               (cmResult.kind = "message" /\ MinusOne(cmResult, cmItem))
        /\ (cmResult.kind # "null" /\ ~HasEndLocation(cmItem)) => cmResult.kind = "throw"

C7_Witness ==
    /\ cmResult.kind = "message"
    /\ SyntaxOff
    /\ cmItem.location = Loc(2, 1)
    /\ cmItem.end_location = Loc(2, 2)
    /\ cmResult.position = << <<1, 0>>, <<1, 1>> >>

\* C8: for a finding with a location, the diagnostic produced has severity
\* error when the code is null or "E999" and warning for every other code; with
\* the toggle off exactly the findings with code null or "E999" are dropped
\* (null is returned) and the others are not dropped: they give their warning.
C8_SeverityAndSyntaxToggle ==
    (Converted /\ HasLocation(cmItem)) =>
        /\ cmResult.kind = "message" =>
               (cmResult.severity = IF SyntaxCode(cmItem) THEN "error" ELSE "warning")
        /\ SyntaxOff => ((cmResult.kind = "null") <=> SyntaxCode(cmItem))
        /\ ~SyntaxOff => cmResult.kind # "null"
        /\ (SyntaxOff /\ ~SyntaxCode(cmItem) /\ HasEndLocation(cmItem)) =>
               (cmResult.kind = "message" /\ cmResult.severity = "warning")

C8_Witness ==
    /\ cmResult.kind = "null"
    /\ SyntaxOff
    /\ HasLocation(cmItem)
    /\ HasEndLocation(cmItem)
    /\ cmItem.code = Str(<<"E999">>)

\* C9 as stated: the display text is "<code> U+2014 <message>" when the finding
\* has a code and the message does not already start with that prefix, and the
\* bare message otherwise (so an already prefixed message is not prefixed again).
C9_Original ==
    cmResult.kind = "message" =>
        cmResult.excerpt =
            IF Truthy(cmItem.code)
               /\ ~StartsWith(cmItem.message.v, cmItem.code.v \o <<EmDash>>)
                THEN cmItem.code.v \o <<EmDash>> \o cmItem.message.v
                ELSE cmItem.message.v

\* C19 as stated: a finding whose code field is missing is treated as one with
\* code null: severity error, the bare message as display text, and dropped
\* when the syntax toggle is off.
C19_Original ==
    (Converted /\ HasLocation(cmItem) /\ HasEndLocation(cmItem) /\ cmItem.code.t = "undefined") =>
        /\ SyntaxOff => cmResult.kind = "null"
        /\ cmResult.kind = "message" =>
               (cmResult.severity = "error" /\ cmResult.excerpt = cmItem.message.v)

-----------------------------------------------------------------------------
(* ProjectLinter.execRuff: what the execFile callback receives and what the *)
(* promise resolves to                                                       *)

NoStderr == Str(<< >>)
SomeStderr == Str(<<"warning: invalid configuration">>)

\* stdout is "", white space only, text that is not JSON, or JSON text
Stdout(text, value) == [text |-> text, value |-> value]
EmptyStdout == Stdout("empty", Undef)
BlankStdout == Stdout("blank", Undef)
GarbageStdout == Stdout("garbage", Undef)
JsonStdout(v) == Stdout("json", v)

\* !stdout || !stdout.trim()
StdoutIsBlank(stdout) == stdout.text \in {"empty", "blank"}

\* JSON.parse(stdout): the parsed value, or a SyntaxError
JSONparse(stdout) ==
    IF stdout.text = "json" THEN [ok |-> TRUE, value |-> stdout.value]
    ELSE [ok |-> FALSE, value |-> Undef]

\* a slip: invocation failure tested with stderr (if (error || stderr))
execRuff_ErrorIsEmpty(res) ==
    IF res.error \/ Truthy(res.stderr) THEN Arr(<< >>)
    ELSE IF StdoutIsBlank(res.stdout) THEN Arr(<< >>)
    ELSE IF JSONparse(res.stdout).ok THEN JSONparse(res.stdout).value
    ELSE Arr(<< >>)

\* a slip: no try/catch arm, unparsable stdout resolves undefined
execRuff_NoCatch(res) ==
    IF Truthy(res.stderr) THEN Arr(<< >>)
    ELSE IF StdoutIsBlank(res.stdout) THEN Arr(<< >>)
    ELSE JSONparse(res.stdout).value

\* the execFile callback (error, stdout, stderr) => ...: the value resolved
execRuff(res) ==
    IF Truthy(res.stderr) THEN Arr(<< >>)
    ELSE IF StdoutIsBlank(res.stdout) THEN Arr(<< >>)
    ELSE IF JSONparse(res.stdout).ok THEN JSONparse(res.stdout).value
    ELSE Arr(<< >>)

\* project root i of atom.project.getPaths()
RootPath(i) == "/p" \o ToString(i)

\* records of ruff's JSON output for the files of project root p
FileOf(p) == Str(<<p, "/a.py">>)
GoodItem(p) ==
    [filename |-> FileOf(p), code |-> Str(<<"E501">>), message |-> Str(<<"Line too long">>),
     location |-> Loc(1, 1), end_location |-> Loc(1, 2)]
SyntaxItem(p) ==
    [filename |-> FileOf(p), code |-> Null, message |-> Str(<<"SyntaxError">>),
     location |-> Loc(2, 1), end_location |-> Loc(2, 2)]
NoEndItem(p) == [GoodItem(p) EXCEPT !.end_location = Undef]
NoLocItem(p) == [GoodItem(p) EXCEPT !.location = Undef, !.end_location = Undef]
NoFileItem(p) == [GoodItem(p) EXCEPT !.filename = Undef]

ExecResult(error, stdout, stderr) == [error |-> error, stdout |-> stdout, stderr |-> stderr]

\* what one invocation for project root p may hand to the callback
ExecResults(p) ==
    { ExecResult(FALSE, JsonStdout(Arr(<< >>)), NoStderr),
      ExecResult(TRUE, JsonStdout(Arr(<<GoodItem(p)>>)), NoStderr),
      ExecResult(FALSE, JsonStdout(Arr(<<GoodItem(p), SyntaxItem(p)>>)), NoStderr),
      ExecResult(TRUE, JsonStdout(Arr(<<GoodItem(p)>>)), SomeStderr),
      ExecResult(TRUE, EmptyStdout, NoStderr),
      ExecResult(FALSE, BlankStdout, NoStderr),
      ExecResult(FALSE, GarbageStdout, NoStderr),
      ExecResult(TRUE, JsonStdout(Obj([error |-> "unexpected"])), NoStderr),
      ExecResult(TRUE, JsonStdout(Arr(<<NoFileItem(p), NoLocItem(p), GoodItem(p), NoEndItem(p)>>)),
                 NoStderr) }

-----------------------------------------------------------------------------
(* ProjectLinter.runScan *)

\* a slip: allMessages.unshift(msg) in place of allMessages.push(msg)
RECURSIVE ProcessItems_Unshift(_, _, _)
ProcessItems_Unshift(items, syntaxCfg, acc) ==
    IF items = << >> THEN [msgs |-> acc, threw |-> FALSE]
    ELSE LET item == Head(items)
             msg == convertMessage(item.filename, item, syntaxCfg)
         IN  IF ~Truthy(item.filename) THEN ProcessItems_Unshift(Tail(items), syntaxCfg, acc)
             ELSE IF msg.kind = "throw" THEN [msgs |-> acc, threw |-> TRUE]
             ELSE IF msg.kind = "null" THEN ProcessItems_Unshift(Tail(items), syntaxCfg, acc)
             ELSE ProcessItems_Unshift(Tail(items), syntaxCfg, <<msg>> \o acc)

\* for (const item of items) { if (!item.filename) continue;
\*   const msg = this.convertMessage(filePath, item); if (msg) allMessages.push(msg); }
\* acc is allMessages; threw tells that convertMessage raised
RECURSIVE ProcessItems(_, _, _)
ProcessItems(items, syntaxCfg, acc) ==
    IF items = << >> THEN [msgs |-> acc, threw |-> FALSE]
    ELSE LET item == Head(items)
             msg == convertMessage(item.filename, item, syntaxCfg)
         IN  IF ~Truthy(item.filename) THEN ProcessItems(Tail(items), syntaxCfg, acc)
             ELSE IF msg.kind = "throw" THEN [msgs |-> acc, threw |-> TRUE]
             ELSE IF msg.kind = "null" THEN ProcessItems(Tail(items), syntaxCfg, acc)
             ELSE ProcessItems(Tail(items), syntaxCfg, Append(acc, msg))

\* for..of over the resolved value: an array is iterated, a string gives
\* characters (no filename), anything else is not iterable (TypeError)
IterateItems(items, syntaxCfg, acc) ==
    IF items.t = "array" THEN ProcessItems(items.v, syntaxCfg, acc)
    ELSE IF items.t = "string" THEN [msgs |-> acc, threw |-> FALSE]
    ELSE [msgs |-> acc, threw |-> TRUE]

\* a slip: the guard tests the delegate only
ScanBlocked_DelegateOnly == indieDelegate = "null"

\* a slip: the guard tests the flag only
ScanBlocked_ScanningOnly == scanning

\* if (!this.indieDelegate || this.scanning) return;
ScanBlocked == indieDelegate = "null" \/ scanning

\* the finally block, after the catch block or the normal end of the try block
Finish(how) ==
    /\ outcome' = how
    /\ scanning' = FALSE
    /\ pc' = "idle"
    /\ pending' = "none"

\* the synchronous part of runScan, up to the first await
RunScan ==
    /\ IF ScanBlocked
         THEN /\ lastCall' = "dropped"
              /\ UNCHANGED <<scanning, pc, scanPaths, idx, allMessages, pending, procs,
                             history, outcome, writes>>
         ELSE /\ lastCall' = "started"
              /\ allMessages' = << >>
              /\ history' = << >>
              /\ writes' = 0
              /\ \E getPathsOk \in BOOLEAN :
                    IF ~getPathsOk
                      THEN \* atom.project.getPaths() raises: outside the try block
                           /\ scanning' = TRUE
                           /\ outcome' = "raised"
                           /\ pc' = "idle"
                           /\ UNCHANGED <<scanPaths, idx, pending, procs>>
                    ELSE IF Len(projectPaths) = 0
                      THEN \* if (!projectPaths.length) { this.scanning = false; return; }
                           /\ scanning' = FALSE
                           /\ outcome' = "noRoots"
                           /\ pc' = "idle"
                           /\ scanPaths' = projectPaths
                           /\ UNCHANGED <<idx, pending, procs>>
                      ELSE \* the first execRuff call of the loop
                           /\ scanning' = TRUE
                           /\ outcome' = "running"
                           /\ pc' = "await"
                           /\ scanPaths' = projectPaths
                           /\ idx' = 1
                           /\ \E spawnOk \in BOOLEAN :
                                 /\ pending' = IF spawnOk THEN "process" ELSE "rejected"
                                 /\ procs' = IF spawnOk THEN procs + 1 ELSE procs
    /\ UNCHANGED <<indieDelegate, projectPaths, showSyntax, sink, convVars, cfgVars, clientVars, diagVars>>

\* the process of the awaited root reports; runScan resumes, runs the inner
\* loop and then either starts the next root or publishes and returns
ExecCallback ==
    /\ pc = "await"
    /\ pending = "process"
    /\ \E res \in ExecResults(scanPaths[idx]) :
          LET items == execRuff(res)
              run == IterateItems(items, showSyntax, allMessages)
              pushed == SubSeq(run.msgs, Len(allMessages) + 1, Len(run.msgs))
          IN  /\ history' = Append(history, [exec |-> res, pushed |-> pushed])
              /\ allMessages' = run.msgs
              /\ IF run.threw
                   THEN \* catch (error) { console.error(...) }
                        /\ Finish("caught:items")
                        /\ procs' = procs - 1
                        /\ UNCHANGED <<idx, sink, writes>>
                 ELSE IF idx < Len(scanPaths)
                   THEN \* the next execRuff call of the loop
                        /\ idx' = idx + 1
                        /\ \E spawnOk \in BOOLEAN :
                              /\ pending' = IF spawnOk THEN "process" ELSE "rejected"
                              /\ procs' = IF spawnOk THEN procs ELSE procs - 1
                        /\ UNCHANGED <<outcome, scanning, pc, sink, writes>>
                 ELSE \* this.indieDelegate.setAllMessages(allMessages, ...)
                      /\ procs' = procs - 1
                      /\ UNCHANGED idx
                      /\ \E sinkOk \in BOOLEAN :
                            IF indieDelegate = "null" \/ ~sinkOk
                              THEN Finish("caught:sink") /\ UNCHANGED <<sink, writes>>
                              ELSE /\ sink' = run.msgs
                                   /\ writes' = writes + 1
                                   /\ Finish("published")
    /\ UNCHANGED <<indieDelegate, projectPaths, showSyntax, lastCall, scanPaths,
                   convVars, cfgVars, clientVars, diagVars>>

\* the promise of execRuff rejected (buildCheckArgs or execFile raised)
ExecRejected ==
    /\ pc = "await"
    /\ pending = "rejected"
    /\ Finish("caught:exec")
    /\ UNCHANGED <<indieDelegate, projectPaths, showSyntax, sink, lastCall, scanPaths, idx,
                   allMessages, procs, history, writes, convVars, cfgVars, clientVars, diagVars>>

\* consumeLinterV2: indie.register(projectDelegate), a fresh delegate
Register ==
    /\ indieDelegate = "null"
    /\ indieDelegate' = "delegate"
    /\ sink' = << >>
    /\ UNCHANGED <<scanning, projectPaths, showSyntax, lastCall, pc, scanPaths, idx,
                   allMessages, pending, procs, history, outcome, writes, convVars, cfgVars, clientVars, diagVars>>

\* dispose(): this.indieDelegate = null
Dispose ==
    /\ indieDelegate = "delegate"
    /\ indieDelegate' = "null"
    /\ UNCHANGED <<scanning, projectPaths, showSyntax, sink, lastCall, pc, scanPaths, idx,
                   allMessages, pending, procs, history, outcome, writes, convVars, cfgVars, clientVars, diagVars>>

\* the user adds or removes project folders
SetProjectPaths ==
    /\ \E n \in 0..MaxRoots :
          /\ n # Len(projectPaths)
          /\ projectPaths' = [i \in 1..n |-> RootPath(i)]
    /\ UNCHANGED <<indieDelegate, scanning, showSyntax, sink, lastCall, pc, scanPaths, idx,
                   allMessages, pending, procs, history, outcome, writes, convVars, cfgVars, clientVars, diagVars>>

Init ==
    /\ indieDelegate = "null"
    /\ scanning = FALSE
    /\ projectPaths = << >>
    /\ showSyntax \in {Bool(TRUE), Bool(FALSE)}
    /\ sink = << >>
    /\ lastCall = "none"
    /\ pc = "idle"
    /\ scanPaths = << >>
    /\ idx = 0
    /\ allMessages = << >>
    /\ pending = "none"
    /\ procs = 0
    /\ history = << >>
    /\ outcome = "none"
    /\ writes = 0
    /\ ConvIdle
    /\ CfgIdle
    /\ ClientIdle
    /\ DiagIdle

Next ==
    \/ Register
    \/ Dispose
    \/ SetProjectPaths
    \/ RunScan
    \/ ExecCallback
    \/ ExecRejected

Spec == Init /\ [][Next]_vars

-----------------------------------------------------------------------------
(* Claims about runScan and execRuff, checked under Spec *)

\* the invocation failed in one of the ways execRuff turns into "no findings"
FailedInvocation(e) == Truthy(e.stderr) \/ e.stdout.text \in {"empty", "blank", "garbage"}

WellFormedItem(item) ==
    /\ item.filename.t = "string"
    /\ HasLocation(item)
    /\ HasEndLocation(item)

\* stdout is a JSON list of findings that all carry file, location and end location
ListOfFindings(e) ==
    /\ e.stdout.text = "json"
    /\ e.stdout.value.t = "array"
    /\ \A k \in DOMAIN e.stdout.value.v : WellFormedItem(e.stdout.value.v[k])

\* the diagnostics of a list of well-formed findings, in the list's order
RECURSIVE Diagnostics(_, _)
Diagnostics(items, syntaxCfg) ==
    IF items = << >> THEN << >>
    ELSE LET m == convertMessage(Head(items).filename, Head(items), syntaxCfg)
         IN  (IF m.kind = "message" THEN <<m>> ELSE << >>) \o Diagnostics(Tail(items), syntaxCfg)

\* what a scan whose roots reported h has to publish: nothing for a failed
\* invocation, the diagnostics of its findings for every other root
RECURSIVE ExpectedSink(_, _)
ExpectedSink(h, syntaxCfg) ==
    IF h = << >> THEN << >>
    ELSE (IF FailedInvocation(Head(h).exec) THEN << >>
          ELSE Diagnostics(Head(h).exec.stdout.value.v, syntaxCfg))
         \o ExpectedSink(Tail(h), syntaxCfg)

\* C1: a runScan call made while the scanning flag is set changes nothing: no
\* process is started, the sink is not written, the flag and the running call
\* are untouched; and the scanner writes the sink only in the step that ends a
\* scan, once per scan.
C1_DroppedWhileScanning ==
    [][ /\ (scanning /\ RunScan) =>
              UNCHANGED <<scanning, sink, procs, pending, pc, scanPaths, idx,
                          allMessages, history, outcome, writes>>
        /\ (writes' > writes) =>
              (scanning /\ writes = 0 /\ pc = "await" /\ pc' = "idle" /\ ~scanning')
      ]_vars

C1_Witness ==
    /\ pc = "await"
    /\ scanning
    /\ indieDelegate = "delegate"
    /\ lastCall = "dropped"
    /\ procs = 1
    /\ Len(history) = 1

\* C2: when a scan ends in which every root either failed (stderr output, empty
\* or unparsable stdout, with or without a process error) or returned a list of
\* findings, and the delegate accepted the batch, the scan has published exactly
\* the findings of the roots that returned some, in root order, wherever the
\* failing roots stand.
C2_PartialFailureTolerated ==
    [][ ( /\ pc = "await"
          /\ pc' = "idle"
          /\ outcome' \notin {"caught:exec", "caught:sink"}
          /\ \A i \in DOMAIN history' :
                FailedInvocation(history'[i].exec) \/ ListOfFindings(history'[i].exec) )
        => ( /\ outcome' = "published"
             /\ sink' = ExpectedSink(history', showSyntax) )
      ]_vars

C2_Witness ==
    /\ pc = "idle"
    /\ outcome = "published"
    /\ Len(history) = 2
    /\ history[1].exec.error
    /\ FailedInvocation(history[1].exec)
    /\ ListOfFindings(history[2].exec)
    /\ history[2].pushed # << >>
    /\ sink = history[2].pushed

\* C3 as stated: when a runScan call that started ends normally, the sink holds
\* exactly the findings that call aggregated (none for a scan over zero roots)
\* and nothing of an earlier scan.
C3_Original ==
    [][ ( /\ outcome = "running" \/ (RunScan /\ ~ScanBlocked)
          /\ outcome' \in {"published", "noRoots"} )
        => sink' = allMessages'
      ]_vars

\* C4 as stated: whenever no runScan call is executing, the in-flight flag is
\* clear, whichever step of the call raised.
C4_Original == pc = "idle" => ~scanning

\* C5 as stated: no scan is aborted by a finding that cannot be converted or by
\* a root whose stdout is JSON but no list: a scan that met nothing worse has
\* gone through all its roots and published.
C5_Original ==
    (pc = "idle" /\ outcome \in {"published", "caught:items"}) =>
        (outcome = "published" /\ Len(history) = Len(scanPaths) /\ writes = 1)

C16_OneCheckProcess ==
    /\ procs \in {0, 1}
    /\ procs = 1 <=> (pc = "await" /\ pending = "process")
    /\ pc = "await" => (scanning /\ idx \in DOMAIN scanPaths /\ Len(history) = idx - 1)

C16_Witness ==
    /\ pc = "await"
    /\ pending = "process"
    /\ idx = 2
    /\ Len(history) = 1
    /\ procs = 1
    /\ lastCall = "dropped"
    /\ indieDelegate = "delegate"

\* what the linter's output for one root contributes, in the output's order
RootFindings(e, syntaxCfg) ==
    IF FailedInvocation(e) THEN << >>
    ELSE Diagnostics(SelectSeq(e.stdout.value.v, LAMBDA item : Truthy(item.filename)), syntaxCfg)

\* the findings of the roots that reported h, in root order
RECURSIVE InRootOrder(_, _)
InRootOrder(h, syntaxCfg) ==
    IF h = << >> THEN << >>
    ELSE RootFindings(Head(h).exec, syntaxCfg) \o InRootOrder(Tail(h), syntaxCfg)

\* the step in which a scan publishes: the last root has reported
Publishes ==
    /\ pc = "await"
    /\ pc' = "idle"
    /\ writes = 0
    /\ writes' = 1
    /\ Len(history') = Len(scanPaths)
    /\ sink' = InRootOrder(history', showSyntax)

\* C17: a scan writes the sink at most once, in the step in which its last
\* root has reported; while a scan is under way the sink shows nothing of it
\* (the only other change of the sink is a fresh, empty delegate); what is
\* published lists the findings in root order and, within a root, in the order
\* of the linter's output.
C17_PublishedOnceInOrder ==
    [][ /\ writes' \in {0, 1}
        /\ writes' # writes => (Publishes \/ (RunScan /\ writes' = 0 /\ sink' = sink))
        /\ sink' # sink => (Publishes \/ (indieDelegate = "null" /\ sink' = << >>))
      ]_vars

C17_Witness ==
    /\ pc = "idle"
    /\ outcome = "published"
    /\ writes = 1
    /\ Len(history) = 2
    /\ Len(history[1].pushed) = 2
    /\ Len(history[2].pushed) = 1
    /\ sink = history[1].pushed \o history[2].pushed
    /\ sink[1].excerpt # sink[2].excerpt

\* C20: while the delegate reference is released the scanner does not write the
\* sink: a runScan call is dropped and changes nothing, and a scan that was in
\* flight ends in the catch block, publishing nothing, raising nothing out of
\* runScan, and with the in-flight flag cleared.
C20_NoWriteAfterDispose ==
    [][ indieDelegate = "null" =>
          /\ RunScan => UNCHANGED <<scanning, sink, procs, pending, pc, scanPaths, idx,
                                    allMessages, history, outcome, writes>>
          /\ indieDelegate' = "null" => (sink' = sink /\ writes' = writes)
          /\ (pc = "await" /\ pc' = "idle") =>
                (~scanning' /\ outcome' \in {"caught:items", "caught:exec", "caught:sink"})
      ]_vars

C20_Witness ==
    /\ indieDelegate = "null"
    /\ pc = "idle"
    /\ ~scanning
    /\ outcome = "caught:sink"
    /\ lastCall = "dropped"
    /\ Len(history) = Len(scanPaths)
    /\ allMessages # << >>
    /\ sink = << >>
    /\ writes = 0

-----------------------------------------------------------------------------
(* The Configuration: atom.config.get("ide-ruff").  The nested object is a  *)
(* function of option paths; an absent option reads undefined, and a group  *)
(* (lint, format, codeAction, codeAction.fixViolation, ...) is present when *)
(* it is set, empty or not.                                                  *)

Group == [t |-> "object"]

GroupPaths == {"lint", "format", "codeAction",
               "codeAction.fixViolation", "codeAction.disableRuleComment"}
StringPaths == {"configuration", "targetVersion", "format.indentStyle", "format.quoteStyle"}
NumberPaths == {"lineLength", "format.indentWidth"}
ListPaths == {"exclude", "lint.select", "lint.ignore", "lint.extendSelect",
              "lint.extendIgnore", "lint.fixable", "lint.unfixable"}
BooleanPaths == {"lint.enable", "lint.preview", "lint.useNoqa", "lint.syntax",
                 "format.preview", "codeAction.fixViolation.enable",
                 "codeAction.disableRuleComment.enable", "organizeImports", "fixAll"}
ConfigPaths == GroupPaths \cup StringPaths \cup NumberPaths \cup ListPaths \cup BooleanPaths

\* the group an option lives in ("" at the top level)
Parent(p) ==
    CASE p \in {"lint.enable", "lint.preview", "lint.useNoqa", "lint.syntax", "lint.select",
                "lint.ignore", "lint.extendSelect", "lint.extendIgnore", "lint.fixable",
                "lint.unfixable"} -> "lint"
      [] p \in {"format.preview", "format.indentStyle", "format.indentWidth",
                "format.quoteStyle"} -> "format"
      [] p \in {"codeAction.fixViolation", "codeAction.disableRuleComment"} -> "codeAction"
      [] p = "codeAction.fixViolation.enable" -> "codeAction.fixViolation"
      [] p = "codeAction.disableRuleComment.enable" -> "codeAction.disableRuleComment"
      [] OTHER -> ""

Within(p, g) == Parent(p) = g \/ Parent(Parent(p)) = g

\* the values an option is set to: a zero or empty one and an effective one
ValuesOf(p) ==
    CASE p \in GroupPaths -> {Group}
      [] p = "configuration" -> {Str(<< >>), Str(<<"ruff.toml">>)}
      [] p = "targetVersion" -> {Str(<< >>), Str(<<"py310">>)}
      [] p = "format.indentStyle" -> {Str(<< >>), Str(<<"space">>)}
      [] p = "format.quoteStyle" -> {Str(<< >>), Str(<<"double">>)}
      [] p = "lineLength" -> {Num(0), Num(100)}
      [] p = "format.indentWidth" -> {Num(0), Num(4)}
      [] p = "exclude" -> {Arr(<< >>), Arr(<<"build", "dist">>)}
      [] p \in ListPaths -> {Arr(<< >>), Arr(<<"E", "F">>)}
      [] OTHER -> {Bool(TRUE), Bool(FALSE)}

Assignments == {<<p, v>> : p \in ConfigPaths, v \in UNION {ValuesOf(q) : q \in ConfigPaths}}
                 \cap UNION {{<<p, v>> : v \in ValuesOf(p)} : p \in ConfigPaths}

\* the sets of at most k assignments, no option assigned twice
RECURSIVE AssignmentSets(_)
AssignmentSets(k) ==
    IF k = 0 THEN {{}}
    ELSE LET smaller == AssignmentSets(k - 1)
         IN  smaller \cup
             UNION {{s \cup {a} : a \in {b \in Assignments : \A c \in s : c[1] # b[1]}} :
                    s \in smaller}

\* the Configuration a set of assignments gives: a group is present when it is
\* assigned or something within it is
ConfigOf(s) ==
    [p \in ConfigPaths |->
        IF \E a \in s : a[1] = p THEN (CHOOSE a \in s : a[1] = p)[2]
        ELSE IF p \in GroupPaths /\ \E a \in s : Within(a[1], p) THEN Group
        ELSE Undef]

\* the Configurations with at most k options set
ConfigsUpTo(k) == {ConfigOf(s) : s \in AssignmentSets(k)}

-----------------------------------------------------------------------------
(* RuffLanguageClient.buildRuffSettings and ProjectLinter.buildCheckArgs *)

EmptyObject == [k \in {} |-> Undef]
Put(o, k, v) == [x \in DOMAIN o \cup {k} |-> IF x = k THEN v ELSE o[x]]
PutIf(c, o, k, v) == IF c THEN Put(o, k, v) ELSE o

\* x && x > 0
Positive(x) == Truthy(x) /\ x.t = "number" /\ x.v > 0

\* a slip: an array is truthy whether empty or not (if (config.exclude))
NonEmpty_Truthy(x) == Truthy(x)

\* x && x.length > 0
NonEmpty(x) == Truthy(x) /\ Len(x.v) > 0

\* the lint group of buildRuffSettings (main.js:211-243)
RuffLint(c, o) ==
    LET l0 == Put(o, "lint", Group)
        l1 == PutIf(c["lint.enable"].t = "boolean", l0, "lint.enable", c["lint.enable"])
        l2 == PutIf(c["lint.preview"] = Bool(TRUE), l1, "lint.preview", Bool(TRUE))
        l3 == PutIf(c["lint.useNoqa"] = Bool(FALSE), l2, "lint.ignoreNoqa", Bool(TRUE))
        l4 == PutIf(NonEmpty(c["lint.select"]), l3, "lint.select", c["lint.select"])
        l5 == PutIf(NonEmpty(c["lint.ignore"]), l4, "lint.ignore", c["lint.ignore"])
        l6 == PutIf(NonEmpty(c["lint.extendSelect"]), l5, "lint.extendSelect",
                    c["lint.extendSelect"])
        l7 == PutIf(NonEmpty(c["lint.extendIgnore"]), l6, "lint.extendIgnore",
                    c["lint.extendIgnore"])
        l8 == PutIf(NonEmpty(c["lint.fixable"]), l7, "lint.fixable", c["lint.fixable"])
        l9 == PutIf(NonEmpty(c["lint.unfixable"]), l8, "lint.unfixable", c["lint.unfixable"])
    IN  PutIf(c["lint.syntax"] = Bool(FALSE), l9, "showSyntaxErrors", Bool(FALSE))

\* the format group of buildRuffSettings (main.js:246-260)
RuffFormat(c, o) ==
    LET f0 == Put(o, "format", Group)
        f1 == PutIf(c["format.preview"] = Bool(TRUE), f0, "format.preview", Bool(TRUE))
        f2 == PutIf(Truthy(c["format.indentStyle"]), f1, "format.indentStyle",
                    c["format.indentStyle"])
        f3 == PutIf(Positive(c["format.indentWidth"]), f2, "format.indentWidth",
                    c["format.indentWidth"])
    IN  PutIf(Truthy(c["format.quoteStyle"]), f3, "format.quoteStyle", c["format.quoteStyle"])

\* the codeAction group of buildRuffSettings (main.js:263-271)
RuffCodeAction(c, o) ==
    LET a0 == Put(o, "codeAction", Group)
        a1 == IF c["codeAction.fixViolation.enable"] = Bool(FALSE)
                THEN Put(Put(a0, "codeAction.fixViolation", Group),
                         "codeAction.fixViolation.enable", Bool(FALSE))
                ELSE a0
    IN  IF c["codeAction.disableRuleComment.enable"] = Bool(FALSE)
          THEN Put(Put(a1, "codeAction.disableRuleComment", Group),
                   "codeAction.disableRuleComment.enable", Bool(FALSE))
          ELSE a1

\* buildRuffSettings: the server settings object, a function of its key paths
buildRuffSettings(c) ==
    LET s1 == PutIf(Truthy(c["configuration"]), EmptyObject, "configuration", c["configuration"])
        s2 == PutIf(Positive(c["lineLength"]), s1, "lineLength", c["lineLength"])
        s3 == PutIf(Truthy(c["targetVersion"]), s2, "targetVersion", c["targetVersion"])
        s4 == PutIf(NonEmpty(c["exclude"]), s3, "exclude", c["exclude"])
        s5 == IF Truthy(c["lint"]) THEN RuffLint(c, s4) ELSE s4
        s6 == IF Truthy(c["format"]) THEN RuffFormat(c, s5) ELSE s5
        s7 == IF Truthy(c["codeAction"]) THEN RuffCodeAction(c, s6) ELSE s6
        s8 == PutIf(c["organizeImports"] = Bool(FALSE), s7, "organizeImports", Bool(FALSE))
    IN  PutIf(c["fixAll"] = Bool(FALSE), s8, "fixAll", Bool(FALSE))

\* `${x}` in a template literal
Interpolate(x) == IF x.t = "number" THEN <<ToString(x.v)>> ELSE x.v

\* Array.prototype.join(",")
RECURSIVE Join(_)
Join(list) ==
    IF list = << >> THEN << >>
    ELSE IF Len(list) = 1 THEN <<list[1]>>
    ELSE <<list[1], ",">> \o Join(Tail(list))

\* args.push(`${flag}${value}`) when cond holds
PushIf(c, args, arg) == IF c THEN Append(args, arg) ELSE args

\* for (const pattern of config.exclude) args.push(`--exclude=${pattern}`)
RECURSIVE PushExcludes(_, _)
PushExcludes(args, patterns) ==
    IF patterns = << >> THEN args
    ELSE PushExcludes(Append(args, <<"--exclude=", Head(patterns)>>), Tail(patterns))

\* a slip: --ignore-noqa whenever useNoqa is not truthy (if (!config.lint.useNoqa))
CheckLint_NoqaFalsy(c, args) ==
    LET l1 == PushIf(c["lint.preview"] = Bool(TRUE), args, <<"--preview">>)
        l2 == PushIf(~Truthy(c["lint.useNoqa"]), l1, <<"--ignore-noqa">>)
        l3 == PushIf(NonEmpty(c["lint.select"]), l2, <<"--select=">> \o Join(c["lint.select"].v))
        l4 == PushIf(NonEmpty(c["lint.ignore"]), l3, <<"--ignore=">> \o Join(c["lint.ignore"].v))
        l5 == PushIf(NonEmpty(c["lint.extendSelect"]), l4,
                     <<"--extend-select=">> \o Join(c["lint.extendSelect"].v))
        l6 == PushIf(NonEmpty(c["lint.extendIgnore"]), l5,
                     <<"--extend-ignore=">> \o Join(c["lint.extendIgnore"].v))
        l7 == PushIf(NonEmpty(c["lint.fixable"]), l6,
                     <<"--fixable=">> \o Join(c["lint.fixable"].v))
    IN  PushIf(NonEmpty(c["lint.unfixable"]), l7,
               <<"--unfixable=">> \o Join(c["lint.unfixable"].v))

\* the lint group of buildCheckArgs (main.js:488-513)
CheckLint(c, args) ==
    LET l1 == PushIf(c["lint.preview"] = Bool(TRUE), args, <<"--preview">>)
        l2 == PushIf(c["lint.useNoqa"] = Bool(FALSE), l1, <<"--ignore-noqa">>)
        l3 == PushIf(NonEmpty(c["lint.select"]), l2, <<"--select=">> \o Join(c["lint.select"].v))
        l4 == PushIf(NonEmpty(c["lint.ignore"]), l3, <<"--ignore=">> \o Join(c["lint.ignore"].v))
        l5 == PushIf(NonEmpty(c["lint.extendSelect"]), l4,
                     <<"--extend-select=">> \o Join(c["lint.extendSelect"].v))
        l6 == PushIf(NonEmpty(c["lint.extendIgnore"]), l5,
                     <<"--extend-ignore=">> \o Join(c["lint.extendIgnore"].v))
        l7 == PushIf(NonEmpty(c["lint.fixable"]), l6,
                     <<"--fixable=">> \o Join(c["lint.fixable"].v))
    IN  PushIf(NonEmpty(c["lint.unfixable"]), l7,
               <<"--unfixable=">> \o Join(c["lint.unfixable"].v))

\* buildCheckArgs: the CLI argument list, each argument the pieces of its text
buildCheckArgs(c) ==
    LET a1 == PushIf(Truthy(c["configuration"]), << >>,
                     <<"--config=">> \o Interpolate(c["configuration"]))
        a2 == PushIf(Positive(c["lineLength"]), a1,
                     <<"--line-length=">> \o Interpolate(c["lineLength"]))
        a3 == PushIf(Truthy(c["targetVersion"]), a2,
                     <<"--target-version=">> \o Interpolate(c["targetVersion"]))
        a4 == IF NonEmpty(c["exclude"]) THEN PushExcludes(a3, c["exclude"].v) ELSE a3
    IN  IF Truthy(c["lint"]) THEN CheckLint(c, a4) ELSE a4

\* one Configuration, not yet translated
InitCfg ==
    /\ config \in ConfigsUpTo(MaxPresent)
    /\ ruffSettings = Undef
    /\ checkArgs = Undef
    /\ ScanIdle
    /\ ConvIdle
    /\ ClientIdle
    /\ DiagIdle

BuildRuffSettingsCall ==
    /\ ruffSettings = Undef
    /\ ruffSettings' = Obj(buildRuffSettings(config))
    /\ UNCHANGED <<config, checkArgs, scanVars, convVars, clientVars, diagVars>>

BuildCheckArgsCall ==
    /\ checkArgs = Undef
    /\ checkArgs' = Arr(buildCheckArgs(config))
    /\ UNCHANGED <<config, ruffSettings, scanVars, convVars, clientVars, diagVars>>

NextCfg ==
    \/ BuildRuffSettingsCall
    \/ BuildCheckArgsCall

SpecCfg == InitCfg /\ [][NextCfg]_vars

-----------------------------------------------------------------------------
(* Claims about the settings translators, checked under SpecCfg *)

Translated == ruffSettings.t = "object" /\ checkArgs.t = "array"

\* absent, zero or empty
IsUnset(v) ==
    \/ v.t = "undefined"
    \/ v.t = "number" /\ v.v = 0
    \/ v.t \in {"string", "array"} /\ Len(v.v) = 0

\* a group that is absent, or present with nothing in it
EmptyGroup(c, g) == \A q \in ConfigPaths : Within(q, g) => c[q].t = "undefined"

UnsetOption(c, p) == IF p \in GroupPaths THEN EmptyGroup(c, p) ELSE IsUnset(c[p])

\* the key of the server settings object that option p is translated to
SettingsKey(p) ==
    CASE p = "lint.useNoqa" -> "lint.ignoreNoqa"
      [] p = "lint.syntax" -> "showSyntaxErrors"
      [] OTHER -> p

\* the flag of the CLI list that option p is translated to ("" when it has none)
FlagOf(p) ==
    CASE p = "configuration" -> "--config="
      [] p = "lineLength" -> "--line-length="
      [] p = "targetVersion" -> "--target-version="
      [] p = "exclude" -> "--exclude="
      [] p = "lint.preview" -> "--preview"
      [] p = "lint.useNoqa" -> "--ignore-noqa"
      [] p = "lint.select" -> "--select="
      [] p = "lint.ignore" -> "--ignore="
      [] p = "lint.extendSelect" -> "--extend-select="
      [] p = "lint.extendIgnore" -> "--extend-ignore="
      [] p = "lint.fixable" -> "--fixable="
      [] p = "lint.unfixable" -> "--unfixable="
      [] OTHER -> ""

HasFlag(args, f) == \E i \in DOMAIN args : args[i][1] = f

NoKeyNoFlag(p) ==
    /\ SettingsKey(p) \notin DOMAIN ruffSettings.v
    /\ ~HasFlag(checkArgs.v, FlagOf(p))

ExampleConfig == ConfigOf({<<"lineLength", Num(100)>>, <<"lint.select", Arr(<<"E", "F">>)>>})
ExampleArgs == << <<"--line-length=", "100">>, <<"--select=", "E", ",", "F">> >>

\* C10 as stated: an option that is absent, zero or empty, a present but empty
\* lint, format or codeAction group included, gives no key in the server
\* settings object and no flag in the CLI list.
C10_Original ==
    Translated => \A p \in ConfigPaths : UnsetOption(config, p) => NoKeyNoFlag(p)

\* C10 amended: an option that is absent, zero or empty gives no key in the
\* server settings object and no flag in the CLI list; a lint, format or
\* codeAction group gives its key in the server settings object exactly when
\* the group is present, empty or not, and an empty group gives no flag; the
\* example Configuration gives exactly --line-length=100 and --select=E,F.
C10_UnsetOptionsNotEmitted ==
    Translated =>
        /\ \A p \in ConfigPaths \ {"lint", "format", "codeAction"} :
              UnsetOption(config, p) => NoKeyNoFlag(p)
        /\ \A g \in {"lint", "format", "codeAction"} :
              /\ (g \in DOMAIN ruffSettings.v) <=> (config[g].t = "object")
              /\ EmptyGroup(config, g) =>
                    \A q \in ConfigPaths : Within(q, g) => NoKeyNoFlag(q)
        /\ config = ExampleConfig => checkArgs.v = ExampleArgs

C10_Witness ==
    /\ Translated
    /\ config["lineLength"] = Num(0)
    /\ config["lint"] = Group
    /\ EmptyGroup(config, "lint")
    /\ DOMAIN ruffSettings.v = {"lint"}
    /\ checkArgs.v = << >>


\* the options both translators read
SharedOptions == {"configuration", "lineLength", "targetVersion", "exclude",
                  "lint.preview", "lint.useNoqa", "lint.select", "lint.ignore",
                  "lint.extendSelect", "lint.extendIgnore", "lint.fixable", "lint.unfixable"}

\* the arguments of the CLI list that start with flag f, in order
FlagArgs(args, f) == SelectSeq(args, LAMBDA a : a[1] = f)

\* the CLI list carries, for option p, the value v of the server settings object:
\* one --exclude= per pattern, the codes of a rule list separated by commas, the
\* decimal digits of a number, the text of a string, the bare flag for true
CarriesValue(p, v) ==
    LET fa == FlagArgs(checkArgs.v, FlagOf(p))
    IN  CASE p = "exclude" ->
               /\ v.t = "array"
               /\ [i \in 1..Len(fa) |-> Tail(fa[i])] = [i \in 1..Len(v.v) |-> <<v.v[i]>>]
          [] p \in ListPaths \ {"exclude"} ->
               /\ v.t = "array"
               /\ Len(fa) = 1
               /\ SelectSeq(Tail(fa[1]), LAMBDA x : x # ",") = v.v
               /\ Len(fa[1]) = 2 * Len(v.v)
          [] p \in NumberPaths ->
               /\ v.t = "number"
               /\ Len(fa) = 1
               /\ Tail(fa[1]) = <<ToString(v.v)>>
          [] p \in StringPaths ->
               /\ v.t = "string"
               /\ Len(fa) = 1
               /\ Tail(fa[1]) = v.v
          [] OTHER ->
               /\ v = Bool(TRUE)
               /\ fa = << <<FlagOf(p)>> >>

\* C11: the two translations of one Configuration agree on every option they
\* share: the CLI list carries the flag of an option exactly when the server
\* settings object carries its key, and then with the same value; useNoqa
\* false gives ignoreNoqa: true and --ignore-noqa, any other useNoqa neither.
C11_TranslationsAgree ==
    Translated =>
        /\ \A p \in SharedOptions :
              /\ (SettingsKey(p) \in DOMAIN ruffSettings.v) <=> HasFlag(checkArgs.v, FlagOf(p))
              /\ SettingsKey(p) \in DOMAIN ruffSettings.v =>
                    CarriesValue(p, ruffSettings.v[SettingsKey(p)])
        /\ ("lint.ignoreNoqa" \in DOMAIN ruffSettings.v) <=> (config["lint.useNoqa"] = Bool(FALSE))
        /\ HasFlag(checkArgs.v, "--ignore-noqa") <=> (config["lint.useNoqa"] = Bool(FALSE))

C11_Witness ==
    /\ Translated
    /\ config["lint.useNoqa"] = Bool(FALSE)
    /\ config["lint.select"] = Arr(<<"E", "F">>)
    /\ ruffSettings.v["lint.ignoreNoqa"] = Bool(TRUE)
    /\ ruffSettings.v["lint.select"] = Arr(<<"E", "F">>)
    /\ checkArgs.v = << <<"--ignore-noqa">>, <<"--select=", "E", ",", "F">> >>

-----------------------------------------------------------------------------
(* RuffLanguageClient: activate, startServerProcess, the callbacks of a     *)
(* spawned server process, deactivate.  A handle is the index of a process  *)
(* in child; its callbacks are the ones AutoLanguageClient.spawn attaches   *)
(* ('error' -> onSpawnError, 'close' -> onSpawnClose) and the 'exit'        *)
(* listener of startServerProcess.                                          *)

\* what the 'exit' and 'close' events of a process report
ExitStatuses ==
    { [code |-> Num(0), signal |-> Null],
      [code |-> Num(1), signal |-> Null],
      [code |-> Null, signal |-> Str(<<"SIGTERM">>)] }

\* a process just spawned
Running ==
    [state |-> "running", errored |-> FALSE, code |-> Undef, signal |-> Undef,
     closeNotes |-> 0, errorNotes |-> 0]

\* onSpawnError(err): the number of notifications it adds
onSpawnError(found) == IF ~Truthy(found) THEN 0 ELSE 1

\* onSpawnClose(code, signal): the number of notifications it adds
onSpawnClose(found, code, signal) ==
    IF ~Truthy(found) THEN 0
    ELSE IF code # Num(0) /\ signal = Null THEN 1
    ELSE 0

\* a slip: the 'exit' listener does not remove the handle
ExitListener_Keep(set, h) == set

\* childProcess.on("exit", () => this.processes.delete(childProcess))
ExitListener(set, h) == set \ {h}

\* a slip: the race has no timer in it (await super.deactivate())
DeadlineArmed_Never == FALSE

\* new Promise((resolve) => setTimeout(resolve, 2000)) is pending
DeadlineArmed == lifecycle = "deactivating"

\* a slip: the server is restarted whether or not one is running
RestartRequested_Always(set) == TRUE

\* if (this.processes && this.processes.size > 0) this.restartServer()
RestartRequested(set) == set # {}

\* atom.config.set("ide-ruff.<p>", v): the groups above p come to exist
ConfigSet(c, p, v) ==
    [q \in ConfigPaths |->
        IF q = p THEN v
        ELSE IF q \in GroupPaths /\ Within(p, q) THEN Group
        ELSE c[q]]

\* the Configurations toggleNoqa may find: lint.useNoqa unset, true or false
ClientConfigs ==
    {ConfigOf({})} \cup {ConfigOf({<<"lint.useNoqa", Bool(b)>>}) : b \in BOOLEAN}

\* activate(): super.activate(); this.processes = new Set(); ...
Activate ==
    /\ lifecycle \in {"constructed", "deactivated"}
    /\ lifecycle' = "active"
    /\ deactHow' = "none"
    /\ processes' = {}
    /\ UNCHANGED <<ruffFound, child, lastToggle, scanVars, convVars, cfgVars, diagVars>>

\* startServerProcess(projectPath): found tells whether whichSync resolved the binary
StartServerProcess ==
    /\ lifecycle = "active"
    /\ \E found \in BOOLEAN :
          IF ~found
            THEN /\ ruffFound' = Bool(FALSE)
                 /\ UNCHANGED <<processes, child>>
            ELSE /\ Len(child) < MaxProcs
                 /\ ruffFound' = Bool(TRUE)
                 /\ child' = Append(child, Running)
                 /\ processes' = processes \cup {Len(child) + 1}
    /\ UNCHANGED <<lifecycle, deactHow, lastToggle, scanVars, convVars, cfgVars, diagVars>>

\* the 'error' event of a process h
SpawnError ==
    /\ \E h \in DOMAIN child :
          /\ child[h].state = "running"
          /\ ~child[h].errored
          /\ child' = [child EXCEPT ![h].errored = TRUE,
                                    ![h].errorNotes = @ + onSpawnError(ruffFound)]
    /\ UNCHANGED <<lifecycle, deactHow, processes, ruffFound, lastToggle,
                   scanVars, convVars, cfgVars, diagVars>>

\* the 'exit' event of a process h
ProcessExit ==
    /\ \E h \in DOMAIN child :
          /\ child[h].state = "running"
          /\ \E st \in ExitStatuses :
                child' = [child EXCEPT ![h].state = "exited", ![h].code = st.code,
                                       ![h].signal = st.signal]
          /\ processes' = ExitListener(processes, h)
    /\ UNCHANGED <<lifecycle, deactHow, ruffFound, lastToggle, scanVars, convVars, cfgVars, diagVars>>

\* the 'close' event of a process h, after its 'exit' event
ProcessClose ==
    /\ \E h \in DOMAIN child :
          /\ child[h].state = "exited"
          /\ child' = [child EXCEPT ![h].state = "closed",
                                    ![h].closeNotes =
                                        @ + onSpawnClose(ruffFound, child[h].code, child[h].signal)]
    /\ UNCHANGED <<lifecycle, deactHow, processes, ruffFound, lastToggle,
                   scanVars, convVars, cfgVars, diagVars>>

\* deactivate() up to the await: subscriptions and the scanner's delegate are
\* released, the race between super.deactivate() and the timer begins
Deactivate ==
    /\ lifecycle = "active"
    /\ lifecycle' = "deactivating"
    /\ deactHow' = "none"
    /\ indieDelegate' = "null"
    /\ UNCHANGED <<scanning, projectPaths, showSyntax, sink, lastCall, pc, scanPaths, idx,
                   allMessages, pending, procs, history, outcome, writes,
                   processes, ruffFound, child, lastToggle, convVars, cfgVars, diagVars>>

\* deactivate() after the await, or after the catch block
AfterRace(how) ==
    /\ lifecycle' = "deactivated"
    /\ deactHow' = how
    /\ processes' = {}
    /\ UNCHANGED <<ruffFound, child, lastToggle, scanVars, convVars, cfgVars, diagVars>>

\* super.deactivate() resolves first
ShutdownResolves ==
    /\ lifecycle = "deactivating"
    /\ AfterRace("resolved")

\* super.deactivate() rejects (or raises) with an Error first: catch (err) { log(...) }
ShutdownRejects ==
    /\ lifecycle = "deactivating"
    /\ AfterRace("rejected")

\* the 2000 ms timer fires first
DeadlineFires ==
    /\ DeadlineArmed
    /\ lifecycle = "deactivating"
    /\ AfterRace("deadline")

\* toggleNoqa(): the setting is replaced by its negation; restartServer() is
\* called when a process is tracked
ToggleNoqa ==
    /\ lifecycle = "active"
    /\ LET current == config["lint.useNoqa"]
       IN  config' = ConfigSet(config, "lint.useNoqa", Bool(~Truthy(current)))
    /\ lastToggle' = IF RestartRequested(processes) THEN "restart" ELSE "quiet"
    /\ UNCHANGED <<lifecycle, deactHow, processes, ruffFound, child, ruffSettings, checkArgs,
                   scanVars, convVars, diagVars>>

InitClient ==
    /\ lifecycle = "constructed"
    /\ deactHow = "none"
    /\ processes = {}
    /\ ruffFound = Undef
    /\ child = << >>
    /\ lastToggle = "none"
    /\ config \in ClientConfigs
    /\ ruffSettings = Undef
    /\ checkArgs = Undef
    /\ ScanIdle
    /\ ConvIdle
    /\ DiagIdle

NextClient ==
    \/ Activate
    \/ StartServerProcess
    \/ SpawnError
    \/ ProcessExit
    \/ ProcessClose
    \/ Deactivate
    \/ ShutdownResolves
    \/ ShutdownRejects
    \/ DeadlineFires
    \/ ToggleNoqa

\* a timer that is due fires
SpecClient == InitClient /\ [][NextClient]_vars /\ WF_vars(DeadlineFires)

-----------------------------------------------------------------------------
(* Claims about the language client, checked under SpecClient *)

Unexpected(c) == c.code # Num(0) /\ c.signal = Null

\* C12 as stated: every spawned process whose exit has been reported gave
\* exactly one "stopped unexpectedly" notification when it exited with a
\* non-zero code and no signal, and none otherwise, whatever server starts
\* were interleaved.
C12_Original ==
    \A h \in DOMAIN child :
        child[h].state = "closed" =>
            child[h].closeNotes = IF Unexpected(child[h]) THEN 1 ELSE 0

\* C13 as stated: the error callback of a spawned process, whose start
\* resolved the binary, gives a notification, whatever server starts happened
\* between the spawn and the callback.
C13_Original ==
    \A h \in DOMAIN child : child[h].errored => child[h].errorNotes = 1

\* C14: a deactivate call that has reached the race gets past it, whether the
\* shutdown resolves, rejects or never settles (the timer then fires); the step
\* past the race clears the tracked set and ends the call normally.
C14_DeactivateFinishes ==
    /\ (lifecycle = "deactivating") ~> (lifecycle = "deactivated")
    /\ [][ (lifecycle = "deactivating" /\ lifecycle' # "deactivating") =>
              /\ lifecycle' = "deactivated"
              /\ deactHow' \in {"resolved", "rejected", "deadline"}
              /\ processes' = {}
         ]_vars

C14_Witness ==
    /\ lifecycle = "deactivated"
    /\ deactHow = "deadline"
    /\ processes = {}
    /\ \E h \in DOMAIN child : child[h].state = "running"

\* C18 as stated: a handle is in the tracked set exactly from its spawn to its
\* exit event.
C18_Original ==
    \A h \in DOMAIN child : (h \in processes) <=> (child[h].state = "running")

\* C18 amended: the tracked set holds only handles of spawned processes that
\* have not exited; a spawned handle is added by its start and leaves the set
\* at its exit event, or earlier when deactivate clears the set; a start that
\* did not resolve the binary leaves the set as it was.
C18_TrackedUntilExitOrClear ==
    /\ [](\A h \in processes : h \in DOMAIN child /\ child[h].state = "running")
    /\ [][ /\ \A h \in DOMAIN child' \ DOMAIN child : h \in processes'
           /\ \A h \in processes \ processes' :
                 \/ child[h].state = "running" /\ child'[h].state = "exited"
                 \/ lifecycle = "deactivating" /\ lifecycle' = "deactivated" /\ processes' = {}
           /\ (StartServerProcess /\ ruffFound' = Bool(FALSE)) => processes' = processes
         ]_vars

C18_Witness ==
    /\ lifecycle = "active"
    /\ ruffFound = Bool(FALSE)
    /\ Len(child) = 2
    /\ child[1].state = "exited"
    /\ child[2].state = "running"
    /\ processes = {2}


\* C21: a toggleNoqa call stores the negation of lint.useNoqa and nothing else
\* of the Configuration; it requests a server restart exactly when the tracked
\* set is non-empty when it is called; it starts no process and leaves the
\* tracked set, the processes and the life cycle as they were.
C21_ToggleNegatesAndRestartsIfTracked ==
    [][ (ToggleNoqa \/ config' # config \/ lastToggle' # lastToggle) =>
          /\ config'["lint.useNoqa"] = Bool(~Truthy(config["lint.useNoqa"]))
          /\ \A q \in ConfigPaths \ {"lint", "lint.useNoqa"} : config'[q] = config[q]
          /\ (lastToggle' = "restart") <=> (processes # {})
          /\ (lastToggle' = "quiet") <=> (processes = {})
          /\ UNCHANGED <<lifecycle, deactHow, processes, ruffFound, child,
                         ruffSettings, checkArgs, scanVars, convVars, diagVars>>
      ]_vars

C21_Witness ==
    /\ lifecycle = "active"
    /\ lastToggle = "restart"
    /\ config["lint.useNoqa"] = Bool(FALSE)
    /\ processes = {2}
    /\ Len(child) = 2
    /\ child[1].state = "closed"

-----------------------------------------------------------------------------
(* RuffLanguageClient.preInitialization: the wrapper that every handler       *)
(* registered with connection.onPublishDiagnostics is put behind.  The        *)
(* connection hands each event object to the registered wrappers in order;    *)
(* the wrappers change the object in place.                                    *)

Diag(code, message) == [code |-> code, message |-> message]

\* `${diag.code} U+2014 ` with its spaces
CodePrefix(code) == Interpolate(code) \o <<EmDash>>

\* a slip: the prefix is added without the startsWith test
RewriteDiag_NoCheck(diag) ==
    IF Truthy(diag.code)
      THEN [diag EXCEPT !.message = Str(CodePrefix(diag.code) \o diag.message.v)]
      ELSE diag

\* if (diag.code && !diag.message.startsWith(prefix)) diag.message = prefix + diag.message
RewriteDiag(diag) ==
    IF Truthy(diag.code) /\ ~StartsWith(diag.message.v, CodePrefix(diag.code))
      THEN [diag EXCEPT !.message = Str(CodePrefix(diag.code) \o diag.message.v)]
      ELSE diag

\* if (params.diagnostics) for (const diag of params.diagnostics) ...
Rewrite(p) ==
    IF Truthy(p.diagnostics)
      THEN [p EXCEPT !.diagnostics =
                Arr([k \in DOMAIN p.diagnostics.v |-> RewriteDiag(p.diagnostics.v[k])])]
      ELSE p

\* the wrappers i, i+1, ... run on the event object p: each rewrites it and
\* then calls its handler with it (callback(params))
RECURSIVE Dispatch(_, _, _)
Dispatch(hs, p, i) ==
    IF i > Len(hs) THEN [handlers |-> hs, params |-> p]
    ELSE LET q == Rewrite(p)
         IN  Dispatch([hs EXCEPT ![i].got = Append(@, q)], q, i + 1)

\* messages and codes of the server's diagnostics (a code may be a number)
DiagMessages == {Str(<<"Line too long">>),
                 Str(<<"E501", EmDash, "Line too long">>),
                 Str(<<"E501", MojiDash, "Line too long">>)}
DiagCodes == {Undef, Str(<<"E501">>), Num(401)}

\* the events the server publishes
DiagEvents ==
    {[diagnostics |-> Undef], [diagnostics |-> Arr(<< >>)]}
    \cup {[diagnostics |-> Arr(<<Diag(c, m)>>)] : c \in DiagCodes, m \in DiagMessages}
    \cup {[diagnostics |-> Arr(<<Diag(Str(<<"E501">>), Str(<<"Line too long">>)),
                                 Diag(Undef, Str(<<"Line too long">>)),
                                 Diag(Num(401), Str(<<"E501", EmDash, "Line too long">>))>>)]}

\* connection.onPublishDiagnostics(callback): originalOn(wrapper of callback)
OnPublishDiagnostics ==
    /\ Len(handlers) < MaxHandlers
    /\ handlers' = Append(handlers, [since |-> deliveries, got |-> << >>])
    /\ UNCHANGED <<params, deliveries, scanVars, convVars, cfgVars, clientVars>>

\* the connection delivers event object p
Deliver(p) ==
    LET run == Dispatch(handlers, p, 1)
    IN  /\ handlers' = run.handlers
        /\ params' = run.params
        /\ deliveries' = deliveries + 1

\* a new event arrives from the server
PublishDiagnostics ==
    /\ deliveries < MaxDeliveries
    /\ \E p \in DiagEvents : Deliver(p)
    /\ UNCHANGED <<scanVars, convVars, cfgVars, clientVars>>

\* the latest event object is delivered again
Redeliver ==
    /\ deliveries < MaxDeliveries
    /\ params # Undef
    /\ Deliver(params)
    /\ UNCHANGED <<scanVars, convVars, cfgVars, clientVars>>

InitDiag ==
    /\ handlers = << >>
    /\ params = Undef
    /\ deliveries = 0
    /\ ScanIdle
    /\ ConvIdle
    /\ CfgIdle
    /\ ClientIdle

NextDiag ==
    \/ OnPublishDiagnostics
    \/ PublishDiagnostics
    \/ Redeliver

SpecDiag == InitDiag /\ [][NextDiag]_vars

-----------------------------------------------------------------------------
(* Claims about the diagnostics interceptor, checked under SpecDiag *)

\* how many times in a row s starts with p
RECURSIVE LeadingCopies(_, _)
LeadingCopies(s, p) ==
    IF StartsWith(s, p) THEN 1 + LeadingCopies(SubSeq(s, Len(p) + 1, Len(s)), p) ELSE 0

\* the event a handler was called with is a rewritten one: a diagnostic with a
\* code carries a server message behind exactly one "<CODE> U+2014 " prefix, a
\* diagnostic without a code carries the server message
RewrittenOnce(p) ==
    p.diagnostics.t = "array" =>
        \A k \in DOMAIN p.diagnostics.v :
            LET d == p.diagnostics.v[k]
            IN  IF Truthy(d.code)
                  THEN /\ LeadingCopies(d.message.v, CodePrefix(d.code)) = 1
                       /\ \E m \in DiagMessages :
                             d.message.v \in {m.v, CodePrefix(d.code) \o m.v}
                  ELSE d.message \in DiagMessages

\* C15: every registered handler has been called exactly once for each event
\* delivered since its registration, each time with the rewritten event, in
\* which every diagnostic with a code starts with "<CODE> U+2014 " exactly
\* once, also after the same object went through several wrappers or was
\* delivered again.
C15_RewrittenOncePerHandler ==
    \A i \in DOMAIN handlers :
        /\ Len(handlers[i].got) = deliveries - handlers[i].since
        /\ \A k \in DOMAIN handlers[i].got : RewrittenOnce(handlers[i].got[k])

C15_Witness ==
    LET e == [diagnostics |-> Arr(<<Diag(Str(<<"E501">>),
                                         Str(<<"E501", EmDash, "Line too long">>))>>)]
    IN  /\ Len(handlers) = 2
        /\ deliveries = 2
        /\ params = e
        /\ \A i \in {1, 2} : handlers[i].since = 0 /\ handlers[i].got = <<e, e>>

====
